---------------------------- MODULE Spec2Model ----------------------------
(***************************************************************************)
(* A model of the CHIP-8 interpreter of src/src/main.rs: the Chip8 struct, *)
(* the construction of the machine (font table and ROM load), the frame    *)
(* loop (key poll, timer step and sound gate) and the 12 instruction slots *)
(* of a frame, one action per arm of the dispatch match.                   *)
(*                                                                         *)
(* Representation.  A u8 or u16 is a natural number.  A u64 display row    *)
(* and the u128 staging value of the sprite blit are the SETS of their set *)
(* bit positions (bit 0 = least significant), since they do not fit a      *)
(* model integer: x ^ y is the symmetric difference, x & y the             *)
(* intersection, a shift moves every position.  A panic of the program     *)
(* (assert!, unwrap on None, index out of range, panic!) ends the process: *)
(* it is recorded in `halted` and no action is enabled afterwards.         *)
(***************************************************************************)
EXTENDS Integers, Sequences, FiniteSets, TLC

(***************************************************************************)
(* Program constants.                                                      *)
(***************************************************************************)
VAR_AND_DISPLAY_REFRESH_SIZE == 352
MEMORY_SIZE == 4096
ADDR_START_PROGRAM == 512
\* fault: the whole memory after 0x200 taken as program region
ADDR_PROGRAM_END_Whole == MEMORY_SIZE
ADDR_PROGRAM_END == MEMORY_SIZE - VAR_AND_DISPLAY_REFRESH_SIZE
\* `for _ in 0..12`: instruction slots of one frame
IPT == 12
\* address of the font table: chip8.memory[0x050..0x0A0]
FONT_BASE == 80

FONT_ARR ==
    << \HF0, \H90, \H90, \H90, \HF0,
       \H20, \H60, \H20, \H20, \H70,
       \HF0, \H10, \HF0, \H80, \HF0,
       \HF0, \H10, \HF0, \H10, \HF0,
       \H90, \H90, \HF0, \H10, \H10,
       \HF0, \H80, \HF0, \H10, \HF0,
       \HF0, \H80, \HF0, \H90, \HF0,
       \HF0, \H10, \H20, \H40, \H40,
       \HF0, \H90, \HF0, \H90, \HF0,
       \HF0, \H90, \HF0, \H10, \HF0,
       \HF0, \H90, \HF0, \H90, \H90,
       \HE0, \H90, \HE0, \H90, \HE0,
       \HF0, \H80, \H80, \H80, \HF0,
       \HE0, \H90, \H90, \H90, \HE0,
       \HF0, \H80, \HF0, \H80, \HF0,
       \HF0, \H80, \HF0, \H80, \H80 >>

\* FONT_ADDR[k + 1] is the source's FONT_ADDR[k]
FONT_ADDR ==
    << \H050, \H055, \H05A, \H05F, \H064, \H069, \H06E, \H073,
       \H078, \H07D, \H082, \H087, \H08C, \H091, \H096, \H09A >>

(***************************************************************************)
(* Bounds of the model.                                                    *)
(***************************************************************************)
\* frames (passes of the 60 Hz branch of the main loop) a run may take
MaxTicks == 21

(***************************************************************************)
(* Integer helpers.                                                        *)
(***************************************************************************)
Pow2(k) == 2 ^ k
Bit(b, k) == (b \div Pow2(k)) % 2
\* the set bit positions of a byte
Bits(b) == { k \in 0..7 : Bit(b, k) = 1 }
Min(a, b) == IF a < b THEN a ELSE b

RECURSIVE Flatten(_)
\* the byte sequence of a sequence of 16-bit words, high byte first
Flatten(words) ==
    IF words = << >> THEN << >>
    ELSE << Head(words) \div 256, Head(words) % 256 >> \o Flatten(Tail(words))

NoKeys == [k \in 0..15 |-> FALSE]
KeysDown(S) == [k \in 0..15 |-> k \in S]

(***************************************************************************)
(* Inputs: the ROM file, the key states the keyboard reports at a poll,    *)
(* the bytes random::<u8>() returns.                                       *)
(***************************************************************************)
KeyStates == { KeysDown({}), KeysDown({3}), KeysDown({3, 7}) }
RandBytes == { \H00, \H5A, \HFF }

\* a ROM file of len bytes, none of them zero: byte k (from 0) is k % 251 + 1
PatternRom(len) == [k \in 1..len |-> ((k - 1) % 251) + 1]
\* file lengths around the capacity of the program region and of the memory
RomLengths == { 0, 1, 3231, 3232, 3233, 3583, 3584, 3585 }

RomsBoundary == { PatternRom(n) : n \in RomLengths }

\* the instruction word of four nibbles, and of a nibble, a register and a byte
W(n0, n1, n2, n3) == n0 * 4096 + n1 * 256 + n2 * 16 + n3
WB(n0, x, byte) == n0 * 4096 + x * 256 + byte

\* register contents <<Vx, Vy>> around the carry: sums 2, 255, 256, 256, 510
AluPairs ==
    { << \H01, \H01 >>, << \HFF, \H00 >>, << \HFF, \H01 >>,
      << \H80, \H80 >>, << \HFF, \HFF >> }

\* 6xaa 6ybb 8xy4, for every x, y
RomsAdd ==
    { Flatten(<< WB(6, x, p[1]), WB(6, y, p[2]), W(8, x, y, 4) >>) :
        x \in 0..15, y \in 0..15, p \in AluPairs }

\* 6xkk Fx29, for every digit and some bytes above 0x0F
FontBytes == (0..15) \cup { \H10, \H1F, \HA5, \HFF }
RomsFont ==
    { Flatten(<< WB(6, x, b), W(15, x, 2, 9) >>) : x \in {0, 15}, b \in FontBytes }

\* sprites of three rows, and the <<Vx, Vy>> they are drawn at
Sprites ==
    { << \HFF, \H00, \H00 >>, << \H00, \HFF, \H81 >>,
      << \HF0, \H0F, \HFF >>, << \H81, \H18, \H00 >> }
DrawAt == { << 0, 0 >>, << 60, 30 >>, << 127, 62 >>, << 5, 31 >> }

\* draw n rows of sprite A, then n rows of sprite B, at the same place:
\*   200 A210  202 60xx  204 61yy  206 D01n  208 A213  20A D01n  20C 0000
\*   20E 0000  210 A0 A1 A2 B0 B1 B2
RomsDraw ==
    { Flatten(<< \HA210, WB(6, 0, p[1]), WB(6, 1, p[2]), W(13, 0, 1, n),
                 \HA213, W(13, 0, 1, n), 0, 0 >>) \o sa \o sb :
        sa \in Sprites, sb \in Sprites, p \in DrawAt, n \in 1..3 }

\* wait for a key twice: 6xAA Fx0A F20A
RomsKey ==
    { Flatten(<< WB(6, x, \HAA), W(15, x, 0, 10), \HF20A >>) : x \in {1, 15} }

\* load both timers, then spin:  6xnn 63mm Fx15 F318 F207 120A
\* and one that writes the sound timer again in every pass:  6002 F018 1202
RomsTimer ==
    { Flatten(<< WB(6, 0, n), WB(6, 3, m), \HF015, \HF318, \HF207, \H1208 >>) :
        n \in {0, 3}, m \in 0..2 }
    \cup { Flatten(<< \H6002, \HF018, \H1202 >>) }

\* returns: on an empty stack, after a call, and once more than was called
RomsRet ==
    { Flatten(<< \H00EE >>),
      Flatten(<< \H2204, \H0000, \H00EE >>),
      Flatten(<< \H2204, \H00EE, \H00EE >>),
      Flatten(<< \H2204, \H1202, \H2208, \H00EE, \H00EE >>) }

\* jumps to the end of memory and past it
RomsJump ==
    { Flatten(<< \H1FFC >>), Flatten(<< \H1FFD >>), Flatten(<< \H1FFE >>),
      Flatten(<< \H1FFF >>), Flatten(<< \H6001, \HBFFF >>),
      Flatten(<< \H60FF, \HBFFF >>) }

\* one use of every other instruction
RomsTour ==
    { Flatten(<< \H00E0, \H6005, \H3005, \H0000, \H4006, \H0000, \H5010,
                 \H9010, \H0000, \H7003, \H8100, \HC2FF, \HB212 >>),
      Flatten(<< \H60F0, \H613C, \H8011, \H8012, \H8013, \H8015, \H8016,
                 \H8017, \H801E >>),
      Flatten(<< \HA300, \H60FE, \HF01E, \HF033, \HF155, \HF165, \HF015,
                 \HF007, \HE09E, \HE0A1 >>) }

\* the instructions that address memory[I..], with I at the end of memory:
\*   Annn 60FF 61yy op      and, with I past 0xFFF:   AFFF 60FF F01E 61yy op
EdgeOps == { \HF033, \HF055, \HF355, \HF065, \HF365, \HD011, \HD012, \HD014 }
EdgeRows == { \H00, \H1E, \H1F }
RomsEdge ==
    { Flatten(<< WB(10, 0, 0) + nnn, \H60FF, WB(6, 1, yy), o >>) :
        nnn \in \HFFC..\HFFF, yy \in EdgeRows, o \in EdgeOps }
    \cup { Flatten(<< \HAFFF, \H60FF, \HF01E, WB(6, 1, yy), o >>) :
              yy \in { \H1F }, o \in EdgeOps }

\* one instruction word that no pattern of the match accepts: all such words
\* among 00D0..00FF, E090..E0AF, F000..F06F, 512N, 912N, 812N, and five more
\* of 0nnn
UnknownWords ==
    ((\H00D0..\H00FF) \ { \H00E0, \H00EE })
        \cup { \H0000, \H01E0, \H0FEE, \H0123, \H0FFF }
        \cup (\H5121..\H512F) \cup (\H9121..\H912F)
        \cup (\H8128..\H812D) \cup { \H812F }
        \cup ((\HE090..\HE0AF) \ { \HE09E, \HE0A1 })
        \cup ((\HF000..\HF06F) \ { \HF007, \HF00A, \HF015, \HF018, \HF01E,
                                     \HF029, \HF033, \HF055, \HF065 })
        \cup { \HF075, \HF085, \HF0FF, \HEF9F, \HFF1F }
RomsUnknown == { Flatten(<< w >>) : w \in UnknownWords }

\* register pairs with x = y, x = F, y = F and neither
AluRegs == { 0, 1, 15 }
\* <<Vx, Vy>> around the borrow and with bit 0 and bit 7 of Vy set and clear
SubPairs ==
    AluPairs \cup { << \H01, \HFF >>, << \H7F, \H80 >> }
\* <<Vx, Vy>> for the bitwise instructions
LogicPairs ==
    { << \HF0, \H3C >>, << \HFF, \H01 >>, << \H00, \H00 >>, << \HA5, \H5A >> }

\* 6xaa 6ybb 8xyN for N = 5, 6, E, and for N = 1, 2, 3
RomsAlu ==
    { Flatten(<< WB(6, x, p[1]), WB(6, y, p[2]), W(8, x, y, n) >>) :
        x \in AluRegs, y \in AluRegs, p \in SubPairs, n \in {5, 6, 14} }
    \cup { Flatten(<< WB(6, x, p[1]), WB(6, y, p[2]), W(8, x, y, n) >>) :
              x \in AluRegs, y \in AluRegs, p \in LogicPairs, n \in {1, 2, 3} }

\* draw n rows of a background sprite, then n rows of a sprite twice at the
\* same place, the column taken from V0 or from VF:
\*   200 A213  202 6xcc  204 61rr  206 Dx1n  208 A210  20A Dx1n  20C Dx1n
\*   20E 0000  210 S0 S1 S2 B0 B1 B2
TwiceSprites == Sprites \cup { << \H0F, \HF0, \H01 >> }
TwiceGrounds == { << \HFF, \H00, \H00 >>, << \H18, \H81, \H00 >> }
TwiceAt == { << 0, 0 >>, << 60, 30 >>, << 5, 31 >> }
RomsTwice ==
    { Flatten(<< \HA213, WB(6, x, p[1]), WB(6, 1, p[2]), W(13, x, 1, n),
                 \HA210, W(13, x, 1, n), W(13, x, 1, n), 0 >>) \o sa \o sb :
        sa \in TwiceSprites, sb \in TwiceGrounds, p \in TwiceAt,
        n \in {1, 3}, x \in {0, 15} }

\* a sprite of 0xFF rows taller than what is left of the screen:
\*   200 A208  202 6005  204 61rr  206 D01n  208 FF FF ..
RomsTall ==
    { Flatten(<< \HA208, \H6005, WB(6, 1, rr), W(13, 0, 1, n), \HFFFF, \HFFFF,
                 \HFFFF, \HFFFF, \HFFFF, \HFFFF, \HFFFF, \HFFFF >>) :
        rr \in { \H1D, \H1F, \H3F }, n \in {4, 15} }

\* wait for a key while both timers run:  6005 F015 F018 F10A
RomsWait == { Flatten(<< \H6005, \HF015, \HF018, \HF10A >>) }

\* subroutines nested to a depth d: the main program calls the first and
\* ends, each subroutine but the last calls the next and returns
\*   200 2204  202 0000  204 2208 00EE  208 220C 00EE  ..  last: 00EE
NestDepths == { 2, 17 }
NestWords(d) ==
    << \H2204, \H0000 >> \o
    [ k \in 1..(2 * d - 1) |->
        IF k % 2 = 1 /\ k < 2 * d - 1
        THEN \H2000 + ADDR_START_PROGRAM + 4 + 2 * (k + 1)
        ELSE \H00EE ]
RomsNest == { Flatten(NestWords(d)) : d \in NestDepths }

\* Annn 6xkk Fx1E with sums around 0xFFF, and one program that adds 0xFF to
\* I = 0xFFF until the sum passes 0xFFFF:  AFFF 60FF F01E F01E ..
IndexRom ==
    << \HAF, \HFF, \H60, \HFF >> \o
    [ k \in 1..(2 * ((\HFFFF - \HFFF) \div \HFF + 1)) |->
        IF k % 2 = 1 THEN \HF0 ELSE \H1E ]
RomsIndex ==
    { Flatten(<< \HA000 + nnn, WB(6, x, kk), W(15, x, 1, 14) >>) :
        nnn \in { \H000, \HF01, \HFFF }, kk \in { \H00, \H01, \HFE, \HFF },
        x \in {0, 15} }
    \cup { IndexRom }

\* jumps below the program region: to address 0 and into the font table
RomsLow == { Flatten(<< \H1000 >>), Flatten(<< \H1050 >>) }

\* a sprite drawn at column 0 and then again across the right edge of the
\* same rows:
\*   200 A20E  202 6000  204 61rr  206 D01n  208 60cc  20A D01n  20C 0000
\*   20E FF 81
ClipColumns == { \H39, \H3C, \H3F, \H7C }
RomsClip ==
    { Flatten(<< \HA20E, \H6000, WB(6, 1, rr), W(13, 0, 1, n), WB(6, 0, cc),
                 W(13, 0, 1, n), \H0000, \HFF81 >>) :
        rr \in { \H05, \H1F }, cc \in ClipColumns, n \in {1, 2} }

\* a sprite whose first row is the last byte of memory, set to 0xFF by an
\* Fx55, drawn with VF clear and with VF set:
\*   AFFF 60FF F055 6100 6Fkk D012
RomsPartial ==
    { Flatten(<< \HAFFF, \H60FF, \HF055, \H6100, WB(6, 15, kk), \HD012 >>) :
        kk \in { \H00, \H01 } }

Roms ==
    RomsBoundary \cup RomsAdd \cup RomsFont \cup RomsDraw \cup RomsKey
        \cup RomsTimer \cup RomsRet \cup RomsJump \cup RomsTour
        \cup RomsEdge \cup RomsUnknown \cup RomsAlu \cup RomsTwice
        \cup RomsTall \cup RomsWait \cup RomsNest \cup RomsIndex
        \cup RomsLow \cup RomsClip \cup RomsPartial

(***************************************************************************)
(* State.                                                                  *)
(***************************************************************************)
VARIABLES
    memory,     \* Chip8.memory: [0..4095 -> 0..255]
    display,    \* Chip8.display: [0..31 -> SUBSET 0..63], bit 63 = leftmost
    pc,         \* Chip8.pc
    stack,      \* Chip8.stack
    delay,      \* Chip8.delay
    sound,      \* Chip8.sound
    v,          \* Chip8.v: [0..15 -> 0..255]
    i,          \* Chip8.i
    keys,       \* main's keys
    last_keys,  \* main's last_keys (all false before the first frame)
    paused,     \* sink.is_paused()
    rom,        \* the bytes of the file named by args[1]
    at,         \* position in main: "load", "frame" (top of the loop), "exec"
    slot,       \* the instruction loop's index, 0..12
    halted,     \* "none", or how the process ended
    ticks,      \* frames taken so far (bounded by MaxTicks)
    snd_n,      \* history: the value the last Fx18 wrote, -1 before any
    snd_age,    \* history: timer steps taken since that Fx18
    drawn       \* history: the last Dxyn that completed, n = -1 before any

chip == << memory, display, pc, stack, delay, sound, v, i >>
host == << keys, last_keys, paused, rom, ticks >>
hist == << snd_n, snd_age, drawn >>
vars == << memory, display, pc, stack, delay, sound, v, i,
           keys, last_keys, paused, rom, at, slot, halted, ticks,
           snd_n, snd_age, drawn >>

\* the Chip8 struct literal, before the font table and the ROM are copied in
Init ==
    /\ memory = [a \in 0..(MEMORY_SIZE - 1) |-> 0]
    /\ display = [r \in 0..31 |-> {}]
    /\ pc = ADDR_START_PROGRAM
    /\ stack = << >>
    /\ delay = 0
    /\ sound = 0
    /\ v = [r \in 0..15 |-> 0]
    /\ i = 0
    /\ keys = NoKeys
    /\ last_keys = NoKeys
    /\ paused = TRUE
    /\ rom \in Roms
    /\ at = "load"
    /\ slot = 0
    /\ halted = "none"
    /\ ticks = 0
    /\ snd_n = -1
    /\ snd_age = 0
    /\ drawn = [ n |-> -1, i |-> 0, vx |-> 0, vy |-> 0, bytes |-> << >>,
                 vf |-> 0, before |-> display, after |-> display ]

(***************************************************************************)
(* Machine construction: the font table, then the ROM.                     *)
(***************************************************************************)
\* fault: the reader not limited by take()
TakeLen_Unlimited(file) == Len(file)

\* file.take(ADDR_PROGRAM_END - ADDR_START_PROGRAM): the bytes the reader yields
TakeLen(file) == Min(Len(file), ADDR_PROGRAM_END - ADDR_START_PROGRAM)

\* dst[start..start + n].copy_from_slice(the first n bytes of src)
CopyFrom(dst, start, src, n) ==
    [a \in start..(start + n - 1) |-> src[a - start + 1]] @@ dst

\* read_exact into memory[ADDR_START_PROGRAM..ADDR_PROGRAM_END]: the bytes read
\* are in the buffer also when the file ends early (UnexpectedEof is ignored)
ReadRom(mem, file) == CopyFrom(mem, ADDR_START_PROGRAM, file, TakeLen(file))

\* chip8.memory[0x050..0x0A0].copy_from_slice(&FONT_ARR)
BurnFont(mem) == CopyFrom(mem, FONT_BASE, FONT_ARR, Len(FONT_ARR))

LoadRom ==
    /\ at = "load"
    /\ halted = "none"
    /\ memory' = ReadRom(BurnFont(memory), rom)
    /\ at' = "frame"
    /\ UNCHANGED << display, pc, stack, delay, sound, v, i >>
    /\ UNCHANGED << slot, halted >>
    /\ UNCHANGED host
    /\ UNCHANGED hist

(***************************************************************************)
(* The frame: key poll, timer step, sound gate.                            *)
(***************************************************************************)
\* fault: a wrapping decrement without the test
TimerStep_Wrapping(t) == (t + 255) % 256

\* `if chip8.delay > 0 { chip8.delay -= 1 }`, and the same test on sound
TimerStep(t) == IF t > 0 THEN t - 1 ELSE t

\* fault: the gate decided on the sound timer after its decrement
GateStep_AfterDecrement(snd, isPaused) == snd <= 1

\* the sink after the sound gate, from the sound timer before the step
GateStep(snd, isPaused) ==
    IF snd > 0 THEN FALSE
    ELSE IF ~isPaused THEN TRUE ELSE isPaused

\* fault: last_keys not taken from keys at the poll
Frame_StaleKeys ==
    /\ at = "frame"
    /\ halted = "none"
    /\ ticks < MaxTicks
    /\ last_keys' = last_keys
    /\ keys' \in KeyStates
    /\ delay' = TimerStep(delay)
    /\ sound' = TimerStep(sound)
    /\ paused' = GateStep(sound, paused)
    /\ slot' = 0
    /\ at' = "exec"
    /\ ticks' = ticks + 1
    /\ snd_age' = IF snd_n >= 0 THEN snd_age + 1 ELSE snd_age
    /\ UNCHANGED << memory, display, pc, stack, v, i, rom, halted, snd_n,
                    drawn >>

Frame ==
    /\ at = "frame"
    /\ halted = "none"
    /\ ticks < MaxTicks
    /\ last_keys' = keys
    /\ keys' \in KeyStates
    /\ delay' = TimerStep(delay)
    /\ sound' = TimerStep(sound)
    /\ paused' = GateStep(sound, paused)
    /\ slot' = 0
    /\ at' = "exec"
    /\ ticks' = ticks + 1
    /\ snd_age' = IF snd_n >= 0 THEN snd_age + 1 ELSE snd_age
    /\ UNCHANGED << memory, display, pc, stack, v, i, rom, halted, snd_n,
                    drawn >>

\* Key::KEY_ESC | Key::KEY_PAUSE => break 'exit
Exit ==
    /\ at = "frame"
    /\ halted = "none"
    /\ last_keys' = keys
    /\ keys' = NoKeys
    /\ halted' = "exit"
    /\ UNCHANGED chip
    /\ UNCHANGED << paused, rom, at, slot, ticks >>
    /\ UNCHANGED hist

(***************************************************************************)
(* Fetch and decode.                                                       *)
(***************************************************************************)
\* &chip8.memory[chip8.pc as usize..]: the range start may not pass the length
SliceOk == pc <= MEMORY_SIZE

\* assert!(slice.len() > 2), on the slice memory[pc..]
AssertLen(len) == len > 2

FetchOk == SliceOk /\ AssertLen(MEMORY_SIZE - pc)

\* the Opcode of the two bytes slice[0], slice[1]
from_slice(b0, b1) ==
    [ n0 |-> b0 \div 16,
      n1 |-> b0 % 16,
      n2 |-> b1 \div 16,
      n3 |-> b1 % 16,
      a  |-> (b0 % 16) * 256 + b1,
      v  |-> b1 ]

\* the instruction loop is about to decode the opcode at pc
Fetched == at = "exec" /\ halted = "none" /\ FetchOk

op == from_slice(memory[pc], memory[pc + 1])

\* the end of one pass of `for _ in 0..12`
NextSlot ==
    /\ slot' = slot + 1
    /\ at' = IF slot + 1 = IPT THEN "frame" ELSE "exec"

\* an arm that ends normally
Retire == NextSlot /\ halted' = "none" /\ UNCHANGED host

\* an arm (or the fetch) that panics: the process ends where it is
Panic(why) == halted' = why /\ UNCHANGED << at, slot >> /\ UNCHANGED host

FetchPanic ==
    /\ at = "exec"
    /\ halted = "none"
    /\ ~FetchOk
    /\ Panic(IF SliceOk THEN "AssertLen" ELSE "SliceStart")
    /\ UNCHANGED chip
    /\ UNCHANGED hist

(***************************************************************************)
(* u8 arithmetic.                                                          *)
(***************************************************************************)
RECURSIVE ValUpTo(_, _)
ValUpTo(S, k) ==
    IF k < 0 THEN 0
    ELSE (IF k \in S THEN Pow2(k) ELSE 0) + ValUpTo(S, k - 1)
\* the byte whose set bits are S
Val(S) == ValUpTo(S, 7)

BitAnd(a, b) == Val(Bits(a) \cap Bits(b))
BitOr(a, b) == Val(Bits(a) \cup Bits(b))
BitXor(a, b) == Val((Bits(a) \ Bits(b)) \cup (Bits(b) \ Bits(a)))

\* u8::overflowing_add, u8::overflowing_sub
overflowing_add(a, b) == [value |-> (a + b) % 256, carry |-> a + b > 255]
overflowing_sub(a, b) == [value |-> (a - b + 256) % 256, carry |-> a < b]
AsU8(flag) == IF flag THEN 1 ELSE 0

X == op.n1
Y == op.n2

(***************************************************************************)
(* The arms of the dispatch match, in the order of the source.             *)
(***************************************************************************)
CLR ==
    /\ Fetched
    /\ op.n0 = 0 /\ op.n1 = 0 /\ op.n2 = 14 /\ op.n3 = 0
    /\ pc' = pc + 2
    /\ display' = [r \in 0..31 |-> {}]
    /\ Retire
    /\ UNCHANGED << memory, stack, delay, sound, v, i >>
    /\ UNCHANGED hist

\* fault: a return on an empty stack absorbed (unwrap_or the next address)
RTN_Silent ==
    /\ Fetched
    /\ op.n0 = 0 /\ op.n1 = 0 /\ op.n2 = 14 /\ op.n3 = 14
    /\ pc' = IF stack = << >> THEN pc + 2 ELSE stack[Len(stack)]
    /\ stack' = IF stack = << >> THEN stack ELSE SubSeq(stack, 1, Len(stack) - 1)
    /\ Retire
    /\ UNCHANGED << memory, display, delay, sound, v, i >>
    /\ UNCHANGED hist

RTN ==
    /\ Fetched
    /\ op.n0 = 0 /\ op.n1 = 0 /\ op.n2 = 14 /\ op.n3 = 14
    /\ IF stack = << >>
       THEN /\ pc' = pc + 2
            /\ stack' = stack
            /\ Panic("UnwrapNone")
       ELSE /\ pc' = stack[Len(stack)]
            /\ stack' = SubSeq(stack, 1, Len(stack) - 1)
            /\ Retire
    /\ UNCHANGED << memory, display, delay, sound, v, i >>
    /\ UNCHANGED hist

JMP ==
    /\ Fetched
    /\ op.n0 = 1
    /\ pc' = op.a
    /\ Retire
    /\ UNCHANGED << memory, display, stack, delay, sound, v, i >>
    /\ UNCHANGED hist

\* fault: the address of the call itself pushed
CAL_PushCallAddr ==
    /\ Fetched
    /\ op.n0 = 2
    /\ stack' = Append(stack, pc)
    /\ pc' = op.a
    /\ Retire
    /\ UNCHANGED << memory, display, delay, sound, v, i >>
    /\ UNCHANGED hist

CAL ==
    /\ Fetched
    /\ op.n0 = 2
    /\ stack' = Append(stack, pc + 2)
    /\ pc' = op.a
    /\ Retire
    /\ UNCHANGED << memory, display, delay, sound, v, i >>
    /\ UNCHANGED hist

\* the arms that only skip: pc after the arm, given the arm's condition
Skip(cond) ==
    /\ pc' = IF cond THEN pc + 4 ELSE pc + 2
    /\ Retire
    /\ UNCHANGED << memory, display, stack, delay, sound, v, i >>
    /\ UNCHANGED hist

SEQ == Fetched /\ op.n0 = 3 /\ Skip(v[X] = op.v)

SNE == Fetched /\ op.n0 = 4 /\ Skip(v[X] # op.v)

SER == Fetched /\ op.n0 = 5 /\ op.n3 = 0 /\ Skip(v[X] = v[Y])

\* the arms that only write registers: v after the arm
SetV(after) ==
    /\ pc' = pc + 2
    /\ v' = after
    /\ Retire
    /\ UNCHANGED << memory, display, stack, delay, sound, i >>
    /\ UNCHANGED hist

\* v[x] = value, then v[0xF] = flag
WithFlag(x, value, flag) == [[v EXCEPT ![x] = value] EXCEPT ![15] = flag]

CAN == Fetched /\ op.n0 = 6 /\ SetV([v EXCEPT ![X] = op.v])

CAD ==
    /\ Fetched
    /\ op.n0 = 7
    /\ SetV([v EXCEPT ![X] = overflowing_add(v[X], op.v).value])

ASN == Fetched /\ op.n0 = 8 /\ op.n3 = 0 /\ SetV([v EXCEPT ![X] = v[Y]])

\* fault: the flag register left as it was
ORR_KeepFlag ==
    /\ Fetched
    /\ op.n0 = 8 /\ op.n3 = 1
    /\ SetV([v EXCEPT ![X] = BitOr(v[X], v[Y])])

ORR ==
    /\ Fetched
    /\ op.n0 = 8 /\ op.n3 = 1
    /\ SetV(WithFlag(X, BitOr(v[X], v[Y]), 0))

AND ==
    /\ Fetched
    /\ op.n0 = 8 /\ op.n3 = 2
    /\ SetV(WithFlag(X, BitAnd(v[X], v[Y]), 0))

XOR ==
    /\ Fetched
    /\ op.n0 = 8 /\ op.n3 = 3
    /\ SetV(WithFlag(X, BitXor(v[X], v[Y]), 0))

\* fault: the flag stored before the sum
ADD_FlagFirst ==
    /\ Fetched
    /\ op.n0 = 8 /\ op.n3 = 4
    /\ LET r == overflowing_add(v[X], v[Y])
       IN  SetV([[v EXCEPT ![15] = AsU8(r.carry)] EXCEPT ![X] = r.value])

ADD ==
    /\ Fetched
    /\ op.n0 = 8 /\ op.n3 = 4
    /\ LET r == overflowing_add(v[X], v[Y])
       IN  SetV(WithFlag(X, r.value, AsU8(r.carry)))

\* fault: the flag is the borrow
SXY_BorrowFlag ==
    /\ Fetched
    /\ op.n0 = 8 /\ op.n3 = 5
    /\ LET r == overflowing_sub(v[X], v[Y])
       IN  SetV(WithFlag(X, r.value, AsU8(r.carry)))

SXY ==
    /\ Fetched
    /\ op.n0 = 8 /\ op.n3 = 5
    /\ LET r == overflowing_sub(v[X], v[Y])
       IN  SetV(WithFlag(X, r.value, AsU8(~r.carry)))

\* fault: Vx shifted in place
RSH_InPlace ==
    /\ Fetched
    /\ op.n0 = 8 /\ op.n3 = 6
    /\ SetV(WithFlag(X, v[X] \div 2, v[X] % 2))

RSH ==
    /\ Fetched
    /\ op.n0 = 8 /\ op.n3 = 6
    /\ SetV(WithFlag(X, v[Y] \div 2, v[Y] % 2))

SYX ==
    /\ Fetched
    /\ op.n0 = 8 /\ op.n3 = 7
    /\ LET r == overflowing_sub(v[Y], v[X])
       IN  SetV(WithFlag(X, r.value, AsU8(~r.carry)))

LSH ==
    /\ Fetched
    /\ op.n0 = 8 /\ op.n3 = 14
    /\ SetV(WithFlag(X, (v[Y] * 2) % 256, v[Y] \div 128))

SNR == Fetched /\ op.n0 = 9 /\ op.n3 = 0 /\ Skip(v[X] # v[Y])

CAI ==
    /\ Fetched
    /\ op.n0 = 10
    /\ pc' = pc + 2
    /\ i' = op.a
    /\ Retire
    /\ UNCHANGED << memory, display, stack, delay, sound, v >>
    /\ UNCHANGED hist

J0N ==
    /\ Fetched
    /\ op.n0 = 11
    /\ pc' = op.a + v[0]
    /\ Retire
    /\ UNCHANGED << memory, display, stack, delay, sound, v, i >>
    /\ UNCHANGED hist

RND ==
    /\ Fetched
    /\ op.n0 = 12
    /\ \E r \in RandBytes : SetV([v EXCEPT ![X] = BitAnd(r, op.v)])

(***************************************************************************)
(* Dxyn.  The u128 staging value and the u64 mask are sets of bit          *)
(* positions.                                                              *)
(***************************************************************************)
\* x << k and x >> k on a u128 (bits shifted out are lost)
Shl128(S, k) == { b + k : b \in S } \cap (0..127)
Shr128(S, k) == { b - k : b \in S } \cap (0..127)
\* u128::rotate_right
RotateRight128(S, k) == { (b + 128 - k) % 128 : b \in S }

\* fault: the bits shifted past the right edge brought back at the left
SpriteMask_Wrap(byte, coord_x) ==
    LET sprite0 == Shl128(Bits(byte), 32 + 64 - 8)
        sprite1 == Shr128(sprite0, coord_x)
        mask0   == RotateRight128(sprite1, 32)
    IN  { b % 64 : b \in mask0 }

\* the u64 mask of one sprite row: lines 638-651
SpriteMask(byte, coord_x) ==
    LET sprite0 == Shl128(Bits(byte), 32 + 64 - 8)
        sprite1 == Shr128(sprite0, coord_x)
        mask0   == RotateRight128(sprite1, 32)
    IN  mask0 \cap (0..63)

\* fault: the sprite row ORed onto the display
DrawRow_Or(st, byte, coord_x, coord_y) ==
    LET mask == SpriteMask(byte, coord_x)
    IN  [ vf      |-> IF mask \cap st.display[coord_y] # {} THEN 1 ELSE 0,
          display |-> [st.display EXCEPT ![coord_y] = @ \cup mask],
          fault   |-> FALSE ]

\* one pass of the row loop on [vf, display]: lines 653-658
DrawRow(st, byte, coord_x, coord_y) ==
    LET mask == SpriteMask(byte, coord_x)
    IN  [ vf      |-> IF mask \cap st.display[coord_y] # {} THEN 1 ELSE 0,
          display |-> [st.display EXCEPT ![coord_y] =
                          (@ \ mask) \cup (mask \ @)],
          fault   |-> FALSE ]

RECURSIVE DrawLoop_Wrap(_, _, _, _, _)
\* fault: rows past the bottom of the screen drawn from the top again
DrawLoop_Wrap(st, coord_x, coord_y, idx, imax) ==
    IF idx < imax
    THEN IF idx >= MEMORY_SIZE
         THEN [st EXCEPT !.fault = TRUE]
         ELSE DrawLoop_Wrap(DrawRow(st, memory[idx], coord_x, coord_y % 32),
                            coord_x, coord_y + 1, idx + 1, imax)
    ELSE st

RECURSIVE DrawLoop(_, _, _, _, _)
\* `while coord_y < 32 && i < imax`; chip8.memory[i] panics when i >= 4096
DrawLoop(st, coord_x, coord_y, idx, imax) ==
    IF coord_y < 32 /\ idx < imax
    THEN IF idx >= MEMORY_SIZE
         THEN [st EXCEPT !.fault = TRUE]
         ELSE DrawLoop(DrawRow(st, memory[idx], coord_x, coord_y),
                       coord_x, coord_y + 1, idx + 1, imax)
    ELSE st

\* the n bytes at I, as far as they are in memory
SpriteBytes ==
    [ r \in 1..op.n3 |-> IF i + r - 1 < MEMORY_SIZE THEN memory[i + r - 1]
                          ELSE -1 ]

DRW ==
    /\ Fetched
    /\ op.n0 = 13
    /\ LET coord_x == v[X] % 64
           coord_y == v[Y] % 32
           r == DrawLoop([vf |-> 0, display |-> display, fault |-> FALSE],
                         coord_x, coord_y, i, i + op.n3)
       IN  /\ v' = [v EXCEPT ![15] = r.vf]
           /\ display' = r.display
           /\ IF r.fault THEN Panic("IndexOutOfBounds") ELSE Retire
           /\ drawn' = IF r.fault THEN drawn
                       ELSE [ n |-> op.n3, i |-> i, vx |-> v[X], vy |-> v[Y],
                              bytes |-> SpriteBytes, vf |-> r.vf,
                              before |-> display, after |-> r.display ]
    /\ pc' = pc + 2
    /\ UNCHANGED << memory, stack, delay, sound, i >>
    /\ UNCHANGED << snd_n, snd_age >>

KYP == Fetched /\ op.n0 = 14 /\ op.n2 = 9 /\ op.n3 = 14 /\ Skip(keys[v[X] % 16])

KYR == Fetched /\ op.n0 = 14 /\ op.n2 = 10 /\ op.n3 = 1 /\ Skip(~keys[v[X] % 16])

DLX ==
    /\ Fetched
    /\ op.n0 = 15 /\ op.n2 = 0 /\ op.n3 = 7
    /\ SetV([v EXCEPT ![X] = delay])

\* fault: the wait ended by a press instead of a release
Released_Pressed == { k \in 0..15 : keys[k] /\ (last_keys[k] # keys[k]) }

\* the keys the loop of Fx0A accepts: down at the last poll, up at this one
Released == { k \in 0..15 : last_keys[k] /\ (last_keys[k] # keys[k]) }
\* `for k in 0x0..=0xF { if .. { ..; break } }`: the first k that passes
FirstOf(S) == CHOOSE k \in S : \A j \in S : k <= j

\* fault: the wait not repeated
BKY_NoRewind ==
    /\ Fetched
    /\ op.n0 = 15 /\ op.n2 = 0 /\ op.n3 = 10
    /\ v' = IF Released # {} THEN [v EXCEPT ![X] = FirstOf(Released)] ELSE v
    /\ pc' = pc + 2
    /\ Retire
    /\ UNCHANGED << memory, display, stack, delay, sound, i >>
    /\ UNCHANGED hist

BKY ==
    /\ Fetched
    /\ op.n0 = 15 /\ op.n2 = 0 /\ op.n3 = 10
    /\ IF Released # {}
       THEN /\ v' = [v EXCEPT ![X] = FirstOf(Released)]
            /\ pc' = pc + 2
       ELSE /\ v' = v
            /\ pc' = pc
    /\ Retire
    /\ UNCHANGED << memory, display, stack, delay, sound, i >>
    /\ UNCHANGED hist

DYS ==
    /\ Fetched
    /\ op.n0 = 15 /\ op.n2 = 1 /\ op.n3 = 5
    /\ pc' = pc + 2
    /\ delay' = v[X]
    /\ Retire
    /\ UNCHANGED << memory, display, stack, sound, v, i >>
    /\ UNCHANGED hist

SND ==
    /\ Fetched
    /\ op.n0 = 15 /\ op.n2 = 1 /\ op.n3 = 8
    /\ pc' = pc + 2
    /\ sound' = v[X]
    /\ snd_n' = v[X]
    /\ snd_age' = 0
    /\ Retire
    /\ UNCHANGED drawn
    /\ UNCHANGED << memory, display, stack, delay, v, i >>

\* chip8.i + chip8.v[x] as u16: past 0xFFFF a build with overflow checks
\* panics and a build without them wraps
ADI ==
    /\ Fetched
    /\ op.n0 = 15 /\ op.n2 = 1 /\ op.n3 = 14
    /\ pc' = pc + 2
    /\ LET sum == i + v[X]
           value == sum % 65536
       IN  \E checked \in (IF sum > 65535 THEN BOOLEAN ELSE {FALSE}) :
              IF checked
              THEN /\ Panic("AddOverflow")
                   /\ UNCHANGED << v, i >>
              ELSE /\ v' = [v EXCEPT ![15] = AsU8(value \div 4096 > 0)]
                   /\ i' = value
                   /\ Retire
    /\ UNCHANGED << memory, display, stack, delay, sound >>
    /\ UNCHANGED hist

RCH ==
    /\ Fetched
    /\ op.n0 = 15 /\ op.n2 = 2 /\ op.n3 = 9
    /\ pc' = pc + 2
    /\ i' = FONT_ADDR[(v[X] % 16) + 1]
    /\ Retire
    /\ UNCHANGED << memory, display, stack, delay, sound, v >>
    /\ UNCHANGED hist

\* the three stores of Fx33 in order; the first one out of range panics
BCD ==
    /\ Fetched
    /\ op.n0 = 15 /\ op.n2 = 3 /\ op.n3 = 3
    /\ pc' = pc + 2
    /\ LET digit == << v[X] \div 100, (v[X] % 100) \div 10, v[X] % 10 >>
           stores == { k \in 0..2 : i + k < MEMORY_SIZE }
       IN  /\ memory' = [a \in 0..(MEMORY_SIZE - 1) |->
                            IF a - i \in stores THEN digit[a - i + 1]
                            ELSE memory[a]]
           /\ IF stores = 0..2 THEN Retire ELSE Panic("IndexOutOfBounds")
    /\ UNCHANGED << display, stack, delay, sound, v, i >>
    /\ UNCHANGED hist

\* fault: the range cut at the end of memory instead of refused
RST_Clamped ==
    /\ Fetched
    /\ op.n0 = 15 /\ op.n2 = 5 /\ op.n3 = 5
    /\ pc' = pc + 2
    /\ memory' = [a \in 0..(MEMORY_SIZE - 1) |->
                     IF a >= i /\ a <= i + X THEN v[a - i] ELSE memory[a]]
    /\ Retire
    /\ UNCHANGED << display, stack, delay, sound, v, i >>
    /\ UNCHANGED hist

\* chip8.memory[i..=i + x]: the range is checked before anything is copied
RST ==
    /\ Fetched
    /\ op.n0 = 15 /\ op.n2 = 5 /\ op.n3 = 5
    /\ pc' = pc + 2
    /\ IF i + X < MEMORY_SIZE
       THEN /\ memory' = [a \in 0..(MEMORY_SIZE - 1) |->
                             IF a >= i /\ a <= i + X THEN v[a - i]
                             ELSE memory[a]]
            /\ Retire
       ELSE /\ memory' = memory
            /\ Panic("IndexOutOfBounds")
    /\ UNCHANGED << display, stack, delay, sound, v, i >>
    /\ UNCHANGED hist

RLD ==
    /\ Fetched
    /\ op.n0 = 15 /\ op.n2 = 6 /\ op.n3 = 5
    /\ pc' = pc + 2
    /\ IF i + X < MEMORY_SIZE
       THEN /\ v' = [r \in 0..15 |-> IF r <= X THEN memory[i + r] ELSE v[r]]
            /\ Retire
       ELSE /\ v' = v
            /\ Panic("IndexOutOfBounds")
    /\ UNCHANGED << memory, display, stack, delay, sound, i >>
    /\ UNCHANGED hist

\* the patterns of the match, in its order
Known(o) ==
    \/ o.n0 = 0 /\ o.n1 = 0 /\ o.n2 = 14 /\ o.n3 \in {0, 14}
    \/ o.n0 \in {1, 2, 3, 4, 6, 7, 10, 11, 12, 13}
    \/ o.n0 \in {5, 9} /\ o.n3 = 0
    \/ o.n0 = 8 /\ o.n3 \in {0, 1, 2, 3, 4, 5, 6, 7, 14}
    \/ o.n0 = 14 /\ << o.n2, o.n3 >> \in { << 9, 14 >>, << 10, 1 >> }
    \/ o.n0 = 15 /\ << o.n2, o.n3 >> \in
          { << 0, 7 >>, << 0, 10 >>, << 1, 5 >>, << 1, 8 >>, << 1, 14 >>,
            << 2, 9 >>, << 3, 3 >>, << 5, 5 >>, << 6, 5 >> }

\* fault: a word no pattern accepts skipped as a no-op
UnknownOperand_Nop ==
    /\ Fetched
    /\ ~Known(op)
    /\ pc' = pc + 2
    /\ Retire
    /\ UNCHANGED << memory, display, stack, delay, sound, v, i >>
    /\ UNCHANGED hist

\* _ => panic!("Unknown operand! {0:?}", op)
UnknownOperand ==
    /\ Fetched
    /\ ~Known(op)
    /\ pc' = pc + 2
    /\ Panic("UnknownOperand")
    /\ UNCHANGED << memory, display, stack, delay, sound, v, i >>
    /\ UNCHANGED hist

Next ==
    \/ LoadRom
    \/ Frame
    \/ Exit
    \/ FetchPanic
    \/ CLR
    \/ RTN
    \/ JMP
    \/ CAL
    \/ SEQ
    \/ SNE
    \/ SER
    \/ CAN
    \/ CAD
    \/ ASN
    \/ ORR
    \/ AND
    \/ XOR
    \/ ADD
    \/ SXY
    \/ RSH
    \/ SYX
    \/ LSH
    \/ SNR
    \/ CAI
    \/ J0N
    \/ RND
    \/ DRW
    \/ KYP
    \/ KYR
    \/ DLX
    \/ BKY
    \/ DYS
    \/ SND
    \/ ADI
    \/ RCH
    \/ BCD
    \/ RST
    \/ RLD
    \/ UnknownOperand

Spec == Init /\ [][Next]_vars

(***************************************************************************)
(* Vocabulary of the properties.                                           *)
(***************************************************************************)
\* the instruction loop is about to execute the given arm
Doing(n0, n2, n3) == Fetched /\ op.n0 = n0 /\ op.n2 = n2 /\ op.n3 = n3
\* the two bytes before pc, decoded: the instruction just executed, when it
\* neither jumped nor skipped
PrevOp == from_slice(memory[pc - 2], memory[pc - 1])
\* construction is over, no frame has started, the run was not ended by ESC
Constructed == at = "frame" /\ ticks = 0 /\ halted # "exit"
\* the process ended at the fetch
FetchFaults == { "AssertLen", "SliceStart" }

\* pixel (row, col) of the display is lit; column 0 is the leftmost
Lit(disp, row, col) == (63 - col) \in disp[row]
\* bit j of a sprite byte, j = 0 the leftmost
SpriteBit(byte, j) == Bit(byte, 7 - j)
\* sprite row r of the Dxyn at pc meets a lit pixel of the display
RowCollides(r) ==
    LET cx == v[X] % 64
        cy == v[Y] % 32
    IN  \E j \in 0..7 :
           /\ SpriteBit(memory[i + r], j) = 1
           /\ cx + j <= 63
           /\ Lit(display, cy + r, cx + j)
\* the sprite rows the Dxyn at pc draws
RowsDrawn == { r \in 0..(op.n3 - 1) : (v[Y] % 32) + r < 32 }

(***************************************************************************)
(* C1.  After a Dxyn of n >= 1 rows, VF is 1 iff at least one of the rows  *)
(* drawn had a sprite bit on a pixel that was lit before the draw, and 0   *)
(* otherwise: the OR over all rows drawn.                                  *)
(* The code overwrites VF in every row, so VF reports the last row only.   *)
(***************************************************************************)
C1_FlagIsOrOfRows ==
    [][ (Fetched /\ op.n0 = 13 /\ op.n3 >= 1 /\ halted' = "none")
          => v'[15] = AsU8(\E r \in RowsDrawn : RowCollides(r)) ]_vars

(***************************************************************************)
(* C2.  As claimed: for every x, y (x = F and y = F included) 8xy4 leaves  *)
(* VF = 1 iff Vx + Vy > 255, else 0, and Vx = (Vx + Vy) mod 256.           *)
(* For x = F the register is VF itself and holds the carry.                *)
(***************************************************************************)
C2_AddAnyX ==
    [][ Doing(8, Y, 4)
          => /\ v'[15] = AsU8(v[X] + v[Y] > 255)
             /\ v'[X] = (v[X] + v[Y]) % 256 ]_vars

(***************************************************************************)
(* C2, amended.  For every x, y, 8xy4 leaves VF = 1 iff Vx + Vy > 255 on   *)
(* the values before the instruction, else 0; for x # F it leaves          *)
(* Vx = (Vx + Vy) mod 256.                                                 *)
(***************************************************************************)
C2_Add ==
    [][ Doing(8, Y, 4)
          => /\ v'[15] = AsU8(v[X] + v[Y] > 255)
             /\ X # 15 => v'[X] = (v[X] + v[Y]) % 256 ]_vars

\* an 8Fy4 has just carried: VF is 1 where the sum mod 256 was 0xFE
C2_Witness ==
    /\ halted = "none"
    /\ pc = ADDR_START_PROGRAM + 6
    /\ PrevOp.n0 = 8 /\ PrevOp.n3 = 4 /\ PrevOp.n1 = 15 /\ PrevOp.n2 = 15
    /\ rom[2] = \HFF
    /\ v[15] = 1

(***************************************************************************)
(* C3.  For every Vx, Fx29 sets I to 0x050 + 5 * (Vx & 0xF), the address   *)
(* of the first of the 5 bytes of the glyph of that digit in the font      *)
(* table at 0x050..0x09F.                                                  *)
(* FONT_ADDR[0xF] is 0x09A: one below the glyph of F at 0x09B.             *)
(***************************************************************************)
C3_FontAddress ==
    [][ Doing(15, 2, 9)
          => /\ i' = FONT_BASE + 5 * (v[X] % 16)
             /\ \A k \in 0..4 :
                   memory[i' + k] = FONT_ARR[5 * (v[X] % 16) + k + 1] ]_vars

(***************************************************************************)
(* C4.  The fetch succeeds for every pc with pc + 1 <= 0xFFF (pc = 0xFFE   *)
(* included) and ends the process exactly when pc + 1 exceeds 0xFFF.       *)
(* The code asserts slice.len() > 2, so the fetch at 0xFFE panics.         *)
(***************************************************************************)
C4_FetchBounds ==
    [][ (at = "exec" /\ halted = "none")
          => (halted' \in FetchFaults <=> pc + 1 > MEMORY_SIZE - 1) ]_vars

(***************************************************************************)
(* C5.  Fx0A completes only on a release: when some key was down at the   *)
(* last poll and is up at this one, Vx becomes such a key and pc ends at   *)
(* the next instruction; otherwise (a fresh press, a key held, no key) no  *)
(* register changes and pc ends at the Fx0A itself.                        *)
(***************************************************************************)
C5_KeyWait ==
    [][ Doing(15, 0, 10)
          => LET rel == { k \in 0..15 : last_keys[k] /\ ~keys[k] }
             IN  IF rel # {}
                 THEN /\ v'[X] \in rel
                      /\ \A r \in 0..15 : r # X => v'[r] = v[r]
                      /\ pc' = pc + 2
                 ELSE /\ v' = v
                      /\ pc' = pc ]_vars

\* an Fx0A has just completed on the release of key 7 while key 3 is held
C5_Witness ==
    /\ halted = "none"
    /\ pc = ADDR_START_PROGRAM + 4
    /\ PrevOp.n0 = 15 /\ PrevOp.n2 = 0 /\ PrevOp.n3 = 10
    /\ v[PrevOp.n1] = 7
    /\ last_keys[3] /\ keys[3] /\ last_keys[7] /\ ~keys[7]

(***************************************************************************)
(* C6.  Every frame runs the timer step once, before its instructions:     *)
(* delay goes down by 1 if it was > 0 and stays 0 if it was 0, and so does *)
(* sound; the 12 instructions that follow change a timer only by writing   *)
(* it (Fx15, Fx18), and the next timer step comes after the 12th.          *)
(***************************************************************************)
C6_TimerStep ==
    [][ /\ (at = "frame" /\ at' = "exec")
           => /\ delay' = (IF delay > 0 THEN delay - 1 ELSE 0)
              /\ sound' = (IF sound > 0 THEN sound - 1 ELSE 0)
              /\ slot' = 0
        /\ Fetched
           => /\ Doing(15, 1, 5) \/ delay' = delay
              /\ Doing(15, 1, 8) \/ sound' = sound
              /\ at' = "frame" <=> (halted' = "none" /\ slot = IPT - 1) ]_vars

\* third frame of a ROM that wrote 3 to delay and 1 to sound in the first
C6_Witness ==
    /\ at = "exec" /\ slot = 0 /\ ticks = 3
    /\ snd_n = 1
    /\ delay = 1 /\ sound = 0

(***************************************************************************)
(* C7.  After the timer step of a frame the sink plays iff the sound timer *)
(* was > 0 when the frame started and is paused iff it was 0; so after an  *)
(* Fx18 that writes N, and until another Fx18, the tone is on after each   *)
(* of the next N timer steps and off after every later one.                *)
(***************************************************************************)
C7_ToneGate ==
    /\ [][ (at = "frame" /\ at' = "exec") => (paused' <=> sound = 0) ]_vars
    /\ []( (snd_n >= 0 /\ snd_age >= 1) => (paused <=> snd_age > snd_n) )

\* silent in the third frame after an Fx18 that wrote 2
C7_Witness == snd_n = 2 /\ snd_age = 3 /\ paused /\ at = "exec"

(***************************************************************************)
(* C8.  00EE on an empty stack ends the process (the unwrap of None        *)
(* panics); it is no silent no-op, and once the process has ended nothing  *)
(* executes.                                                               *)
(***************************************************************************)
C8_RetUnderflow ==
    [][ /\ halted = "none"
        /\ (Fetched /\ op.n0 = 0 /\ op.n1 = 0 /\ op.v = \HEE /\ stack = << >>)
              => halted' = "UnwrapNone" ]_vars

\* a return after the matching return has emptied the stack
C8_Witness == halted = "UnwrapNone" /\ stack = << >> /\ pc = ADDR_START_PROGRAM + 4

C10_LoadFrame ==
    Constructed
      => /\ DOMAIN memory = 0..(MEMORY_SIZE - 1)
         /\ \A a \in (0..(\H050 - 1)) \cup (\H0A0..\H1FF) \cup (\HEA0..\HFFF) :
               memory[a] = 0
         /\ \A a \in \H050..\H09F : memory[a] = FONT_ARR[a - \H050 + 1]

\* a ROM longer than the memory after 0x200 has filled the program region
C10_Witness ==
    /\ Constructed
    /\ Len(rom) = 3585
    /\ memory[\HEA0 - 1] = rom[3232]
    /\ memory[\HEA0 - 1] # 0

(***************************************************************************)
(* C11.  As claimed: every Fx33, Fx55, Fx65 or Dxyn whose addressed range  *)
(* (I..I+2, I..I+x, I..I+n-1 with n >= 1) extends past 0xFFF ends the      *)
(* emulation in a fatal error; none completes as a normal instruction.     *)
(* A Dxyn fetches a sprite row only while the row is on the screen: rows   *)
(* clipped at the bottom are never read, and such a Dxyn completes.        *)
(***************************************************************************)
C11_RangeFaultsAnyDraw ==
    [][ (\/ Doing(15, 3, 3) /\ i + 2 > \HFFF
         \/ Doing(15, 5, 5) /\ i + X > \HFFF
         \/ Doing(15, 6, 5) /\ i + X > \HFFF
         \/ Fetched /\ op.n0 = 13 /\ op.n3 >= 1 /\ i + op.n3 - 1 > \HFFF)
          => halted' # "none" ]_vars

\* the number of sprite rows a Dxyn fetches: those on the screen
RowsFetched == Min(op.n3, 32 - (v[Y] % 32))

(***************************************************************************)
(* C11, amended.  Every Fx33 with I+2 > 0xFFF, every Fx55 or Fx65 with     *)
(* I+x > 0xFFF, and every Dxyn of n >= 1 rows with I+k-1 > 0xFFF, where    *)
(* k = min(n, 32 - Vy mod 32) is the number of rows on the screen, ends    *)
(* the emulation in a fatal error: no later instruction or frame runs.     *)
(* Every other Fx33, Fx55, Fx65 and Dxyn completes.                        *)
(***************************************************************************)
C11_RangeFaults ==
    [][ /\ (\/ Doing(15, 3, 3) \/ Doing(15, 5, 5) \/ Doing(15, 6, 5)
            \/ Fetched /\ op.n0 = 13 /\ op.n3 >= 1)
           => halted' = (IF \/ Doing(15, 3, 3) /\ i + 2 > \HFFF
                            \/ Doing(15, 5, 5) /\ i + X > \HFFF
                            \/ Doing(15, 6, 5) /\ i + X > \HFFF
                            \/ op.n0 = 13 /\ i + RowsFetched - 1 > \HFFF
                         THEN "IndexOutOfBounds" ELSE "none")
        /\ halted # "IndexOutOfBounds" ]_vars

\* a D012 at I = 0xFFF, Vy = 30 has ended the run: both rows are on the
\* screen and the second one is past the end of memory
C11_Witness ==
    /\ halted = "IndexOutOfBounds"
    /\ PrevOp.n0 = 13 /\ PrevOp.n3 = 2
    /\ i = \HFFF /\ v[1] = \H1E

\* the 16-bit word at pc
Word == memory[pc] * 256 + memory[pc + 1]
\* the word is none of the instructions of the dispatch table
Unmatched(w) ==
    LET hi == w \div 4096
        kk == w % 256
    IN  \/ hi = 0 /\ w \notin { \H00E0, \H00EE }
        \/ hi \in {5, 9} /\ w % 16 # 0
        \/ hi = 8 /\ w % 16 \in (8..13) \cup {15}
        \/ hi = 14 /\ kk \notin { \H9E, \HA1 }
        \/ hi = 15 /\ kk \notin { \H07, \H0A, \H15, \H18, \H1E, \H29, \H33,
                                  \H55, \H65 }

(***************************************************************************)
(* C12.  Every word that matches no dispatch pattern (0nnn other than      *)
(* 00E0 and 00EE, 5xyN and 9xyN with N # 0, 8xy8..8xyD and 8xyF, Exkk      *)
(* other than Ex9E and ExA1, Fxkk outside the nine low bytes) ends the     *)
(* emulation in the fatal unknown-opcode state when it is fetched, and      *)
(* after that no instruction and no frame executes: the state never        *)
(* changes again.                                                          *)
(***************************************************************************)
C12_UnknownOpcode ==
    [][ /\ (Fetched /\ Unmatched(Word))
            => /\ halted' = "UnknownOperand"
               /\ UNCHANGED << memory, display, stack, delay, sound, v, i >>
        /\ halted # "UnknownOperand" ]_vars

\* the word F075, which is none of the nine Fxkk, has ended the run in the
\* first frame
C12_Witness ==
    /\ halted = "UnknownOperand"
    /\ memory[pc - 2] = \HF0 /\ memory[pc - 1] = \H75
    /\ ticks = 1 /\ slot = 0

(***************************************************************************)
(* C13.  8xy5 leaves VF = 1 iff Vx >= Vy on the values before the          *)
(* instruction, else 0, and for x # F it leaves Vx = (Vx - Vy) mod 256.    *)
(***************************************************************************)
C13_Sub ==
    [][ Doing(8, Y, 5)
          => /\ v'[15] = AsU8(v[X] >= v[Y])
             /\ X # 15 => v'[X] = (IF v[X] >= v[Y] THEN v[X] - v[Y]
                                    ELSE 256 + v[X] - v[Y])
             /\ halted' = "none" ]_vars

\* an 8015 has just borrowed: 0x01 - 0xFF = 0x02, VF = 0
C13_Witness ==
    /\ halted = "none" /\ pc = ADDR_START_PROGRAM + 6
    /\ PrevOp.n0 = 8 /\ PrevOp.n1 = 0 /\ PrevOp.n2 = 1 /\ PrevOp.n3 = 5
    /\ v[0] = \H02 /\ v[1] = \HFF /\ v[15] = 0

(***************************************************************************)
(* C14.  For every x # F and every y, 8xy6 leaves Vx = Vy >> 1 and         *)
(* VF = bit 0 of Vy as it was before, and 8xyE leaves Vx = (Vy << 1) mod   *)
(* 256 and VF = bit 7 of Vy as it was before: the result is a function of  *)
(* Vy alone, whatever Vx held.  Vy is unchanged when y is neither x nor F. *)
(***************************************************************************)
C14_Shift ==
    [][ /\ (Doing(8, Y, 6) /\ X # 15)
            => /\ v'[X] = v[Y] \div 2
               /\ v'[15] = Bit(v[Y], 0)
               /\ Y \notin {X, 15} => v'[Y] = v[Y]
        /\ (Doing(8, Y, 14) /\ X # 15)
            => /\ v'[X] = (2 * v[Y]) % 256
               /\ v'[15] = Bit(v[Y], 7)
               /\ Y \notin {X, 15} => v'[Y] = v[Y] ]_vars

\* an 8016 has just run on V0 = 0xFF, V1 = 0x01: V0 = 0 and VF = 1 come
\* from V1
C14_Witness ==
    /\ halted = "none" /\ pc = ADDR_START_PROGRAM + 6
    /\ PrevOp.n0 = 8 /\ PrevOp.n1 = 0 /\ PrevOp.n2 = 1 /\ PrevOp.n3 = 6
    /\ memory[pc - 6] = \H60 /\ memory[pc - 5] = \HFF
    /\ v[0] = 0 /\ v[1] = 1 /\ v[15] = 1

(***************************************************************************)
(* C18.  8xy1, 8xy2 and 8xy3 store Vx OR Vy, Vx AND Vy and Vx XOR Vy in    *)
(* Vx and then always set VF to 0, for every x and y; with x = F the       *)
(* result is overwritten by that 0, so VF ends 0 whatever the operands.    *)
(***************************************************************************)
C18_LogicClearsFlag ==
    [][ \A n \in {1, 2, 3} :
          Doing(8, Y, n)
            => /\ v'[15] = 0
               /\ X # 15 =>
                    \A k \in 0..7 :
                       Bit(v'[X], k) = 1 <=>
                          CASE n = 1 -> Bit(v[X], k) = 1 \/ Bit(v[Y], k) = 1
                            [] n = 2 -> Bit(v[X], k) = 1 /\ Bit(v[Y], k) = 1
                            [] n = 3 -> Bit(v[X], k) # Bit(v[Y], k)
               /\ \A r \in 0..14 : r # X => v'[r] = v[r]
               /\ halted' = "none" ]_vars

\* an 8F11 has just run on VF = 0xFF, V1 = 0x01: the OR is lost, VF = 0
C18_Witness ==
    /\ halted = "none" /\ pc = ADDR_START_PROGRAM + 6
    /\ PrevOp.n0 = 8 /\ PrevOp.n1 = 15 /\ PrevOp.n2 = 1 /\ PrevOp.n3 = 1
    /\ memory[pc - 6] = \H6F /\ memory[pc - 5] = \HFF
    /\ v[15] = 0 /\ v[1] = \H01

\* the Dxyn at pc draws what the last completed Dxyn drew, where it drew it,
\* on the display that Dxyn left
DrawsAgain ==
    /\ Fetched /\ op.n0 = 13
    /\ drawn.n = op.n3 /\ drawn.i = i
    /\ drawn.vx = v[X] /\ drawn.vy = v[Y]
    /\ drawn.bytes = SpriteBytes
    /\ drawn.after = display
\* the one-row sprite at I has a set bit on a column of the screen
PixelInside ==
    \E j \in 0..7 : SpriteBit(memory[i], j) = 1 /\ (v[X] % 64) + j <= 63

(***************************************************************************)
(* C15.  Drawing the same sprite twice at the same position, with I, Vx,   *)
(* Vy and the sprite bytes unchanged in between, restores the display to   *)
(* what it was before the first draw; and when the sprite has one row      *)
(* with at least one pixel inside the screen and the first draw reported   *)
(* VF = 0, the second draw reports VF = 1.                                 *)
(***************************************************************************)
C15_DrawTwice ==
    [][ DrawsAgain
          => /\ display' = drawn.before
             /\ halted' = "none"
             /\ (op.n3 = 1 /\ PixelInside /\ drawn.vf = 0) => v'[15] = 1 ]_vars

\* the second D011 of 0x81 at (60, 30) has run over the background 0x18:
\* the first lit column 60 beside the background's column 63 and reported
\* 0, the second reported 1 and column 60 is dark again
C15_Witness ==
    /\ halted = "none" /\ pc = ADDR_START_PROGRAM + 14
    /\ drawn.n = 1 /\ drawn.vx = 60 /\ drawn.vy = 30
    /\ memory[drawn.i] = \H81
    /\ drawn.vf = 1 /\ v[15] = 1
    /\ Lit(drawn.before, 30, 60) /\ ~Lit(display, 30, 60)
    /\ Lit(display, 30, 63)

(***************************************************************************)
(* C16.  A Dxyn changes only the display rows r with                       *)
(* Vy mod 32 <= r < min(32, Vy mod 32 + n): sprite rows that would fall    *)
(* at row 32 or below are dropped and never wrap to the top (from row 31   *)
(* a sprite of height 4 changes row 31 only).                              *)
(***************************************************************************)
C16_RowsClipped ==
    [][ (Fetched /\ op.n0 = 13)
          => \A r \in 0..31 :
                (r < v[Y] % 32 \/ r >= Min(32, (v[Y] % 32) + op.n3))
                   => display'[r] = display[r] ]_vars

\* a D014 of four 0xFF rows has run at row 31: that row is lit, the top
\* three rows are not
C16_Witness ==
    /\ halted = "none"
    /\ drawn.n = 4 /\ drawn.vy = 31 /\ display = drawn.after
    /\ drawn.i = ADDR_START_PROGRAM + 8
    /\ memory[drawn.i + 1] = \HFF
    /\ display[31] # {} /\ drawn.before[31] = {}
    /\ display[0] = {} /\ display[1] = {} /\ display[2] = {}

\* the instruction at pc is an Fx0A and the run has not ended
AtKeyWait ==
    /\ halted = "none" /\ at \in { "frame", "exec" } /\ FetchOk
    /\ op.n0 = 15 /\ op.n2 = 0 /\ op.n3 = 10

(***************************************************************************)
(* C17.  While an Fx0A waits and no key is released, every instruction     *)
(* slot executes that Fx0A again and leaves pc, I, the stack, the memory,  *)
(* all V registers, the display and both timers as they were; the frame    *)
(* steps in between change only the timers, the tone gate and the key      *)
(* states.  So pc stays on the same Fx0A through every slot of every tick. *)
(***************************************************************************)
C17_WaitFreezes ==
    [][ /\ (AtKeyWait /\ at = "exec" /\ Released = {})
            => /\ UNCHANGED << pc, i, stack, memory, v, display >>
               /\ UNCHANGED << delay, sound, paused, keys, last_keys >>
               /\ AtKeyWait'
               /\ slot' = slot + 1
        /\ (AtKeyWait /\ at = "frame" /\ halted' = "none")
            => /\ UNCHANGED << pc, i, stack, memory, v, display >>
               /\ AtKeyWait' /\ at' = "exec" /\ slot' = 0 ]_vars

\* the last slot of the third frame of a wait that began in the first:
\* the timers loaded with 5 have counted down to 3, V1 is untouched
C17_Witness ==
    /\ AtKeyWait /\ at = "exec" /\ slot = IPT - 1 /\ ticks = 3
    /\ pc = ADDR_START_PROGRAM + 6 /\ Released = {}
    /\ delay = 3 /\ sound = 3 /\ ~paused
    /\ v[1] = 0 /\ v[0] = 5

(***************************************************************************)
(* C19.  2nnn pushes the address of the instruction after the call and     *)
(* sets pc = nnn; 00EE on a stack that is not empty pops the address       *)
(* pushed last into pc; no other step changes the stack.  So in a          *)
(* properly nested sequence every return resumes after its own call and    *)
(* leaves the stack as it was before that call, at any depth, above 16     *)
(* too.                                                                    *)
(***************************************************************************)
C19_CallReturn ==
    [][ /\ (Fetched /\ Word \div 4096 = 2)
            => /\ stack' = stack \o << pc + 2 >>
               /\ pc' = Word % 4096
               /\ halted' = "none"
        /\ (Fetched /\ Word = \H00EE /\ stack # << >>)
            => /\ stack = stack' \o << pc' >>
               /\ halted' = "none"
        /\ ~(Fetched /\ (Word \div 4096 = 2 \/ Word = \H00EE))
            => stack' = stack ]_vars

\* the return from the 17th nested subroutine has run: pc is after the
\* call in the 16th, and the 16 addresses pushed before that call are left,
\* each the address after the call of its level
C19_Witness ==
    /\ halted = "none" /\ at = "exec"
    /\ Len(stack) = 16
    /\ pc = ADDR_START_PROGRAM + 4 + 4 * 15 + 2
    /\ Word = \H00EE
    /\ stack[1] = ADDR_START_PROGRAM + 2
    /\ \A k \in 2..16 : stack[k] = ADDR_START_PROGRAM + 4 * k - 2

(***************************************************************************)
(* C20.  For every x and every register content, Fx1E leaves               *)
(* I = I + Vx, on the values before the instruction, and VF = 1 iff that   *)
(* sum exceeds 0xFFF, else VF = 0; I is not masked to 12 bits.             *)
(* The sum is formed in 16 bits: past 0xFFFF the addition either panics    *)
(* or wraps, and I is not the sum.                                         *)
(***************************************************************************)
C20_AddIndex ==
    [][ Doing(15, 1, 14)
          => /\ i' = i + v[X]
             /\ v'[15] = AsU8(i + v[X] > \HFFF) ]_vars

(***************************************************************************)
(* C21.  At every instruction fetch pc lies inside the program region:     *)
(* 0x200 <= pc and pc + 1 <= 0xFFF, whatever the ROM and the keys, after   *)
(* any jumps, calls, returns and skips.                                    *)
(* The jump arms store nnn and V0 + nnn unchecked, and nothing stops the   *)
(* pc at the end of memory.                                                *)
(***************************************************************************)
C21_PcInProgram ==
    (at = "exec" /\ halted = "none")
        => (ADDR_START_PROGRAM <= pc /\ pc + 1 <= \HFFF)

\* the display bits that sprite row k of the Dxyn at pc toggles: bit j of
\* the byte at column c + j, for the columns on the screen
ClipMask(k) ==
    LET c == v[X] % 64
    IN  { 63 - (c + j) : j \in { j \in 0..7 : /\ SpriteBit(memory[i + k], j) = 1
                                               /\ c + j <= 63 } }

(***************************************************************************)
(* C22.  Dxyn clips at the right edge: with c = Vx mod 64, bit j of a      *)
(* sprite row (0 the leftmost) toggles the pixel at column c + j when      *)
(* c + j <= 63, and a bit with c + j > 63 toggles no pixel, neither in     *)
(* columns 0..7 of its row nor in another row, and counts for nothing in   *)
(* VF: when no bit on the screen meets a lit pixel, VF is 0.               *)
(***************************************************************************)
C22_ColumnsClipped ==
    [][ (Fetched /\ op.n0 = 13 /\ halted' = "none")
          => /\ \A r \in 0..31 :
                   display'[r] =
                      IF r - (v[Y] % 32) \in RowsDrawn
                      THEN LET mask == ClipMask(r - (v[Y] % 32))
                           IN  (display[r] \ mask) \cup (mask \ display[r])
                      ELSE display[r]
             /\ (~ \E k \in RowsDrawn : RowCollides(k)) => v'[15] = 0 ]_vars

\* 0xFF drawn at column 0 of row 5 and then at column 60: columns 0..7 and
\* 60..63 are lit and no other, and the second draw reported no collision
C22_Witness ==
    /\ halted = "none" /\ pc = ADDR_START_PROGRAM + 12
    /\ drawn.n = 1 /\ drawn.vx = \H3C /\ drawn.vy = 5
    /\ memory[drawn.i] = \HFF
    /\ display[5] = (56..63) \cup (0..3)
    /\ drawn.before[5] = 56..63
    /\ v[15] = 0

(***************************************************************************)
(* C23.  A faulting instruction is atomic: when an Fx33, Fx55, Fx65 or     *)
(* Dxyn ends in a memory-access fault, every memory byte, every V          *)
(* register (VF too) and every display row is as it was before the         *)
(* instruction.                                                            *)
(* Fx33 stores its digits one by one and Dxyn draws row by row: what was   *)
(* done before the access that faults stays done.                          *)
(***************************************************************************)
C23_FaultAtomic ==
    [][ (/\ \/ Doing(15, 3, 3) \/ Doing(15, 5, 5) \/ Doing(15, 6, 5)
            \/ Fetched /\ op.n0 = 13
         /\ halted' = "IndexOutOfBounds")
          => UNCHANGED << memory, v, display >> ]_vars

(***************************************************************************)
(* C24.  The 16-bit addition of Fx1E never overflows: whenever an Fx1E is  *)
(* about to execute, I + Vx <= 0xFFFF, so that I is always the exact sum   *)
(* of what was added to it since an Annn or Fx29 loaded it.                *)
(* Nothing bounds I: each Fx1E may add up to 0xFF to it.                   *)
(***************************************************************************)
C24_NoOverflow == Doing(15, 1, 14) => i + v[X] <= \HFFFF

\* the keys that went from down at the last poll to up at this one
ReleaseSeen == { k \in 0..15 : last_keys[k] /\ ~keys[k] }

(***************************************************************************)
(* C25.  keys_prev and keys_now are fixed for the whole tick: no           *)
(* instruction slot changes either, so all 12 slots see the same pair and  *)
(* every Fx0A executed in a tick with a release completes, loading the     *)
(* same (lowest released) key index and moving on to the next slot of      *)
(* that tick; and the poll of the next tick makes keys_prev equal to this  *)
(* tick's keys_now.                                                        *)
(***************************************************************************)
C25_KeysPerTick ==
    [][ /\ at = "exec" => UNCHANGED << keys, last_keys >>
        /\ (at = "frame" /\ at' = "exec") => last_keys' = keys
        /\ (Doing(15, 0, 10) /\ ReleaseSeen # {})
            => /\ v'[X] \in ReleaseSeen
               /\ \A k \in ReleaseSeen : v'[X] <= k
               /\ pc' = pc + 2
               /\ halted' = "none"
               /\ slot' = slot + 1 ]_vars

\* slot 2 of the third tick after F10A and F20A: the wait lasted through
\* the second tick, then the release of key 3 completed both in slots 0
\* and 1 of the third
C25_Witness ==
    /\ halted = "none" /\ at = "exec" /\ ticks = 3 /\ slot = 2
    /\ pc = ADDR_START_PROGRAM + 6
    /\ memory[pc - 4] = \HF1 /\ memory[pc - 3] = \H0A
    /\ memory[pc - 2] = \HF2 /\ memory[pc - 1] = \H0A
    /\ v[1] = 3 /\ v[2] = 3
    /\ ReleaseSeen = {3}

====
